---- MODULE Spec2Model ----
(***************************************************************************)
(* wmalloc: a boundary-tag allocator with 46 size-segregated bins.         *)
(*                                                                         *)
(* The model keeps the heap as the C code sees it: a byte-addressed        *)
(* memory.  Every uint64_t of the program, pointers included, is a 64-bit  *)
(* value with all its bits, so that the in-use flag (bit 63), the wrap of  *)
(* n + 24 modulo 2^64 and the narrowing of a uint64_t to int are computed, *)
(* not assumed.  Chunk headers, boundary words and list links are read and *)
(* written in that memory at the addresses the pointer arithmetic of the   *)
(* code yields, aligned or not.                                            *)
(***************************************************************************)
EXTENDS Integers, Sequences, FiniteSets, TLC

VARIABLES mem, wmalloc_ptr, regions, live, status, hist, nops, nwrites, lifo

vars == <<mem, wmalloc_ptr, regions, live, status, hist, nops, nwrites, lifo>>

(***************************************************************************)
(* Program constants                                                       *)
(***************************************************************************)
CHUNK_OVERHEAD == 24
NUM_BINS == 46
MMAP_SIZE == 131072
PAGE_SIZE == 4096
MINIMUM_CHUNK_SIZE == 40

(***************************************************************************)
(* Bounds of the model                                                     *)
(***************************************************************************)
\* number of calls of wmalloc and wfree in one run
MaxOps == 5
\* number of buffers the caller writes to in one run
MaxWrites == 1
\* number of regions the OS grants before mmap reports failure
MaxRegions == 2
\* steps a list walk may take before it is reported as a hang; no list of
\* a run of MaxOps calls is that long
WalkFuel == 2 * MaxOps + 4

(***************************************************************************)
(* 64-bit unsigned integers.  A uint64_t is held as three limbs, least     *)
(* significant first: bits 0..23, bits 24..47 and bits 48..63.             *)
(***************************************************************************)
W24 == 16777216
W16 == 65536
FLAG == 32768

\* the uint64_t of a number below 2^31
U64(x) == <<x % W24, x \div W24, 0>>

Zero == <<0, 0, 0>>
\* 0xffffffffffffffff
AllOnes == <<W24 - 1, W24 - 1, W16 - 1>>
\* 0x8000000000000000
TopBit == <<0, 0, FLAG>>

\* w < 2^30: the value fits a machine integer of the model checker
IsSmall(w) == w[3] = 0 /\ w[2] < 64

Val(w) == w[1] + W24 * w[2]

\* a + b modulo 2^64
Add64(a, b) ==
  LET t0 == a[1] + b[1]
      t1 == a[2] + b[2] + (t0 \div W24)
      t2 == a[3] + b[3] + (t1 \div W24)
  IN <<t0 % W24, t1 % W24, t2 % W16>>

\* a - b modulo 2^64, as a + ~b + 1
Sub64(a, b) ==
  LET t0 == a[1] + (W24 - 1 - b[1]) + 1
      t1 == a[2] + (W24 - 1 - b[2]) + (t0 \div W24)
      t2 == a[3] + (W16 - 1 - b[3]) + (t1 \div W24)
  IN <<t0 % W24, t1 % W24, t2 % W16>>

\* unsigned comparisons
Lt64(a, b) ==
  IF a[3] # b[3] THEN a[3] < b[3]
  ELSE IF a[2] # b[2] THEN a[2] < b[2]
  ELSE a[1] < b[1]
Le64(a, b) == ~Lt64(b, a)
Gt64(a, b) == Lt64(b, a)
Ge64(a, b) == ~Lt64(a, b)

\* w & 0x7fffffffffffffff
ClearTop(w) == <<w[1], w[2], w[3] % FLAG>>
\* w & 0x8000000000000000
OnlyTop(w) == <<0, 0, (w[3] \div FLAG) * FLAG>>
\* w ^ 0x8000000000000000
ToggleTop(w) == <<w[1], w[2], (w[3] + FLAG) % W16>>
\* w >> 63
Shr63(w) == w[3] \div FLAG

\* (uint64_t)(int)w : the low 32 bits, sign-extended (search_bin's parameter)
IntOf(w) ==
  LET b3 == w[2] % 256
  IN IF b3 >= 128 THEN <<w[1], b3 + (W24 - 256), W16 - 1>>
     ELSE <<w[1], b3, 0>>

\* (w / PAGE_SIZE) * PAGE_SIZE : the low 12 bits cleared
PageFloor(w) == <<w[1] - (w[1] % PAGE_SIZE), w[2], w[3]>>

\* the 8 bytes of w in memory order (little-endian), and back
Bytes(w) ==
  <<w[1] % 256, (w[1] \div 256) % 256, w[1] \div 65536,
    w[2] % 256, (w[2] \div 256) % 256, w[2] \div 65536,
    w[3] % 256, w[3] \div 256>>

FromBytes(b) ==
  <<b[1] + 256 * b[2] + 65536 * b[3],
    b[4] + 256 * b[5] + 65536 * b[6],
    b[7] + 256 * b[8]>>

(***************************************************************************)
(* Memory.  mem maps an 8-aligned address to the 8 bytes stored there; an  *)
(* address it does not list holds its initial content: zero for pages the  *)
(* OS has just mapped, and for the engine record what initialize_wmalloc   *)
(* wrote (the bin[] pointers and the bin_index[] bounds).                  *)
(***************************************************************************)
\* what sbrk returns on success: the address of struct wmalloc_info
InfoBase == 65536
\* where the OS places the first mapped region
HeapBase == 1048576
\* end of the user address space (2^47); mmap cannot map beyond it
AddrLimit == <<0, 8388608, 0>>

\* offsets in struct wmalloc_info
OFF_BIN == 0
OFF_DUMMY == 8 * NUM_BINS
OFF_BIN_INDEX == OFF_DUMMY + 32 * NUM_BINS
SIZEOF_INFO == OFF_BIN_INDEX + 8 * NUM_BINS

RECURSIVE StepLoop(_, _, _, _)
\* for(int i=lo; i<=hi; i=i+step){ bin_index[index] = i; index++; }
StepLoop(t, i, hi, step) ==
  IF i <= hi THEN StepLoop(Append(t, U64(i)), i + step, hi, step) ELSE t

RECURSIVE DoubleLoop(_, _, _)
\* for(int i=lo; i<lim; i=i*2){ bin_index[index] = i; index++; }
DoubleLoop(t, i, lim) ==
  IF i < lim THEN DoubleLoop(Append(t, U64(i)), i * 2, lim) ELSE t

\* the table bin_index[0..45] (here indexed 1..46)
initialize_bin_indices ==
  Append(DoubleLoop(StepLoop(StepLoop(StepLoop(StepLoop(<<>>,
           40, 128, 8), 144, 256, 16), 288, 512, 32), 576, 1024, 64),
           2048, 1000000),
         AllOnes)

\* content of the aligned word k of the engine record after initialization
ImageWord(k) ==
  IF IsSmall(k) /\ Val(k) >= InfoBase /\ Val(k) < InfoBase + SIZEOF_INFO
  THEN LET o == Val(k) - InfoBase
       IN IF o < OFF_DUMMY THEN U64(InfoBase + OFF_DUMMY + 32 * (o \div 8))
          ELSE IF o >= OFF_BIN_INDEX
               THEN initialize_bin_indices[(o - OFF_BIN_INDEX) \div 8 + 1]
          ELSE Zero
  ELSE Zero

Cell(m, k) == IF k \in DOMAIN m THEN m[k] ELSE ImageWord(k)

Put(m, k, v) ==
  IF v = ImageWord(k) THEN [x \in (DOMAIN m) \ {k} |-> m[x]]
  ELSE (k :> v) @@ m

AlignDown(p) == <<p[1] - (p[1] % 8), p[2], p[3]>>

\* the uint64_t read at address p: 8 bytes, which lie in one aligned word
\* or, when p is not 8-aligned, across two
RdWord(m, p) ==
  LET o == p[1] % 8
      b == AlignDown(p)
  IN IF o = 0 THEN Cell(m, b)
     ELSE LET lo == Bytes(Cell(m, b))
              hi == Bytes(Cell(m, Add64(b, U64(8))))
          IN FromBytes([i \in 1..8 |->
                          IF o + i <= 8 THEN lo[o + i] ELSE hi[o + i - 8]])

\* memory after the uint64_t w is stored at address p
WrWord(m, p, w) ==
  LET o == p[1] % 8
      b == AlignDown(p)
  IN IF o = 0 THEN Put(m, b, w)
     ELSE LET b2 == Add64(b, U64(8))
              lo == Bytes(Cell(m, b))
              hi == Bytes(Cell(m, b2))
              wb == Bytes(w)
          IN Put(Put(m, b, FromBytes([j \in 1..8 |->
                                       IF j > o THEN wb[j - o] ELSE lo[j]])),
                 b2, FromBytes([j \in 1..8 |->
                                  IF j <= o THEN wb[8 - o + j] ELSE hi[j]]))

(***************************************************************************)
(* The machine state an operation works on: the memory, the regions the    *)
(* OS has mapped, the global wmalloc_ptr, and the way the process died if  *)
(* it did ("segv": access to an unmapped address, "abort": a failed        *)
(* assert, "hang": a list walk that does not end), the number of mmap      *)
(* calls made, the OS call that was refused ("sbrk" or "mmap"), and the    *)
(* chunks passed to remove_chunk.                                          *)
(***************************************************************************)
InfoPtr == U64(InfoBase)
InfoEnd == U64(InfoBase + SIZEOF_INFO)

MappedByte(s, a) ==
  \/ /\ s.wp = InfoPtr
     /\ Le64(InfoPtr, a)
     /\ Lt64(a, InfoEnd)
  \/ \E k \in 1..Len(s.regions) :
        /\ Le64(s.regions[k].base, a)
        /\ Lt64(a, Add64(s.regions[k].base, s.regions[k].len))

\* the 8 bytes at p are mapped
Valid(s, p) ==
  LET last == Add64(p, <<7, 0, 0>>)
  IN /\ Le64(p, last)
     /\ MappedByte(s, p)
     /\ MappedByte(s, last)

\* the process dies of f, unless it is dead already
Fault(s, f) == IF s.fault = "" THEN [s EXCEPT !.fault = f] ELSE s

\* assert(cond)
Require(s, cond) ==
  IF s.fault # "" THEN s ELSE IF cond THEN s ELSE Fault(s, "abort")

\* a read of the word at p: the process dies if p is not mapped
Touch(s, p) ==
  IF s.fault # "" THEN s ELSE IF Valid(s, p) THEN s ELSE Fault(s, "segv")

\* the value such a read yields
Load(s, p) == RdWord(s.mem, p)

Store(s, p, w) ==
  IF s.fault # "" THEN s
  ELSE IF Valid(s, p) THEN [s EXCEPT !.mem = WrWord(@, p, w)]
  ELSE Fault(s, "segv")

\* a value-returning function hands back the state and the value
Ret(s, v) == [s |-> s, v |-> v]

\* fields of struct chunk
PREV(ch) == ch
CURR(ch) == Add64(ch, <<8, 0, 0>>)
LEFT(ch) == Add64(ch, <<16, 0, 0>>)
RIGHT(ch) == Add64(ch, <<24, 0, 0>>)

(***************************************************************************)
(* Chunk encoding.  A read leaves memory as it is, so the value a function *)
(* reads is taken from the state it was called in, while the state it      *)
(* hands back records whether the read killed the process.                 *)
(***************************************************************************)
\* address = (uint64_t)ch + ch->curr_chunk_size - 8 : the trailing word
TrailAddr(s, ch) == Sub64(Add64(ch, Load(s, CURR(ch))), <<8, 0, 0>>)

\* 1 when the size word w is not 0 and its bit 63 is 0
AvailableFlag(w) == IF w # Zero /\ Shr63(w) = 0 THEN 1 ELSE 0

is_prev_available(s, ch) ==
  Ret(Touch(Require(s, ch # Zero), PREV(ch)),
      AvailableFlag(Load(s, PREV(ch))))

is_next_available(s, ch) ==
  Ret(Touch(Touch(Require(s, ch # Zero), CURR(ch)), TrailAddr(s, ch)),
      AvailableFlag(Load(s, TrailAddr(s, ch))))

set_prev_chunk_size(s, ch, size) ==
  Store(Touch(Require(s, ch # Zero), PREV(ch)), PREV(ch),
        Add64(size, OnlyTop(Load(s, PREV(ch)))))

set_next_chunk_size(s, ch, size) ==
  Store(Touch(Touch(Require(s, ch # Zero), CURR(ch)), TrailAddr(s, ch)),
        TrailAddr(s, ch), Add64(size, OnlyTop(Load(s, TrailAddr(s, ch)))))

get_prev_chunk_size(s, ch) ==
  Ret(Touch(Require(s, ch # Zero), PREV(ch)), ClearTop(Load(s, PREV(ch))))

get_next_chunk_size(s, ch) ==
  Ret(Touch(Touch(Require(s, ch # Zero), CURR(ch)), TrailAddr(s, ch)),
      ClearTop(Load(s, TrailAddr(s, ch))))

get_prev_chunk(s, ch) ==
  Ret(get_prev_chunk_size(Require(s, ch # Zero), ch).s,
      Sub64(ch, get_prev_chunk_size(s, ch).v))

get_next_chunk(s, ch) ==
  Ret(Touch(Require(s, ch # Zero), CURR(ch)), Add64(ch, Load(s, CURR(ch))))

\* flag 1 clears bit 63 of the word, any other flag flips it
FlagWord(w, flag) == IF flag = 1 THEN ClearTop(w) ELSE ToggleTop(w)

set_prev_flag(s, ch, flag) ==
  Store(Touch(Require(s, ch # Zero), PREV(ch)), PREV(ch),
        FlagWord(Load(s, PREV(ch)), flag))

set_next_flag(s, ch, flag) ==
  Store(Touch(Touch(Require(s, ch # Zero), CURR(ch)), TrailAddr(s, ch)),
        TrailAddr(s, ch), FlagWord(Load(s, TrailAddr(s, ch)), flag))

\* if(get_prev_chunk_size(ch) != 0) set_next_flag(get_prev_chunk(ch), flag);
SetPrevNeighbourFlag(s, ch, flag) ==
  IF get_prev_chunk_size(s, ch).v # Zero
  THEN set_next_flag(get_prev_chunk(get_prev_chunk_size(s, ch).s, ch).s,
                     get_prev_chunk(s, ch).v, flag)
  ELSE get_prev_chunk_size(s, ch).s

\* if(get_next_chunk_size(ch) != 0) set_prev_flag(get_next_chunk(ch), flag);
SetNextNeighbourFlag(s, ch, flag) ==
  IF get_next_chunk_size(s, ch).v # Zero
  THEN set_prev_flag(get_next_chunk(get_next_chunk_size(s, ch).s, ch).s,
                     get_next_chunk(s, ch).v, flag)
  ELSE get_next_chunk_size(s, ch).s

\* the neighbours' words about ch, where a neighbour exists, get flag `flag`
SetNeighbourFlags(s, ch, flag) ==
  SetNextNeighbourFlag(
    SetPrevNeighbourFlag(Touch(Require(s, ch # Zero), CURR(ch)), ch, flag),
    ch, flag)

set_unavailable(s, ch) == SetNeighbourFlags(s, ch, 0)

set_available(s, ch) == SetNeighbourFlags(s, ch, 1)

\* the local chunk_size of set_adjacent_sizes
AdjacentSize(s, ch, available) ==
  IF available = 1 THEN Load(s, CURR(ch))
  ELSE Add64(Load(s, CURR(ch)), TopBit)

\* if(ch->prev_chunk_size != 0) set_next_chunk_size(get_prev_chunk(ch), chunk_size);
SetPrevAdjacentSize(s, ch, chunk_size) ==
  IF Load(s, PREV(ch)) # Zero
  THEN set_next_chunk_size(get_prev_chunk(s, ch).s, get_prev_chunk(s, ch).v,
                           chunk_size)
  ELSE s

\* if(get_next_chunk_size(ch) != 0) get_next_chunk(ch)->prev_chunk_size = chunk_size;
SetNextAdjacentSize(s, ch, chunk_size) ==
  IF get_next_chunk_size(s, ch).v # Zero
  THEN Store(get_next_chunk(get_next_chunk_size(s, ch).s, ch).s,
             PREV(get_next_chunk(s, ch).v), chunk_size)
  ELSE get_next_chunk_size(s, ch).s

set_adjacent_sizes(s, ch, available) ==
  SetNextAdjacentSize(
    SetPrevAdjacentSize(
      Touch(Touch(Require(s, ch # Zero), CURR(ch)), PREV(ch)),
      ch, AdjacentSize(s, ch, available)),
    ch, AdjacentSize(s, ch, available))

(***************************************************************************)
(* Free-list registry                                                      *)
(***************************************************************************)
\* wmalloc_ptr->bin[i]
bin(s, i) == Load(s, Add64(s.wp, U64(OFF_BIN + 8 * i)))
BinAddr(s, i) == Add64(s.wp, U64(OFF_BIN + 8 * i))
\* wmalloc_ptr->bin_index[i]
bin_index(s, i) == Load(s, Add64(s.wp, U64(OFF_BIN_INDEX + 8 * i)))
BinIndexAddr(s, i) == Add64(s.wp, U64(OFF_BIN_INDEX + 8 * i))

\* the aligned words of the tables bin[] and bin_index[], and the pointers
\* initialize_wmalloc stored in bin[]
TableWords ==
  {U64(InfoBase + OFF_BIN + 8 * i) : i \in 0..(NUM_BINS - 1)}
    \cup {U64(InfoBase + OFF_BIN_INDEX + 8 * i) : i \in 0..(NUM_BINS - 1)}
DummyPtrs == [i \in 1..NUM_BINS |-> U64(InfoBase + OFF_DUMMY + 32 * (i - 1))]

\* no store has changed a word of the two tables since initialization
TablesIntact(s) == s.wp = InfoPtr /\ (DOMAIN s.mem) \cap TableWords = {}

\* the tables bin[0..45] and bin_index[0..45] as they stand in memory (here
\* indexed 1..46); while no store has touched them they hold what
\* initialize_wmalloc wrote
BinTable(s) ==
  IF TablesIntact(s) THEN DummyPtrs
  ELSE [i \in 1..NUM_BINS |-> bin(s, i - 1)]
BinIndexTable(s) ==
  IF TablesIntact(s) THEN initialize_bin_indices
  ELSE [i \in 1..NUM_BINS |-> bin_index(s, i - 1)]

\* where a loop  while(cond(i)) i++;  over the bins stops, given the
\* indices from its start on at which cond is false (NUM_BINS if none)
FirstStop(stops) ==
  IF stops = {} THEN NUM_BINS
  ELSE CHOOSE i \in stops : \A j \in stops : i <= j

RECURSIVE insert_walk_swapped(_, _, _, _, _)
\* insert_in_place with the two links of the last element swapped:
\* to_add->right_ptr = prev; to_add->left_ptr = NULL;
insert_walk_swapped(s, prev, curr, to_add, fuel) ==
  IF s.fault # "" THEN s
  ELSE IF curr = Zero
  THEN Store(Store(Store(s, RIGHT(prev), to_add), RIGHT(to_add), prev),
             LEFT(to_add), Zero)
  ELSE IF fuel = 0 THEN Fault(s, "hang")
  ELSE IF Lt64(Load(s, CURR(to_add)), Load(s, CURR(curr)))
  THEN Store(Store(Store(Store(Touch(Touch(s, CURR(to_add)), CURR(curr)),
                               RIGHT(prev), to_add),
                         LEFT(curr), to_add),
                   RIGHT(to_add), curr),
             LEFT(to_add), prev)
  ELSE insert_walk_swapped(Touch(Touch(Touch(s, CURR(to_add)), CURR(curr)),
                                 RIGHT(curr)),
                           curr, Load(s, RIGHT(curr)), to_add, fuel - 1)

RECURSIVE insert_walk(_, _, _, _, _)
insert_walk(s, prev, curr, to_add, fuel) ==
  IF s.fault # "" THEN s
  ELSE IF curr = Zero
  THEN \* add as last element in list
       Store(Store(Store(s, RIGHT(prev), to_add), LEFT(to_add), prev),
             RIGHT(to_add), Zero)
  ELSE IF fuel = 0 THEN Fault(s, "hang")
  ELSE IF Lt64(Load(s, CURR(to_add)), Load(s, CURR(curr)))
  THEN Store(Store(Store(Store(Touch(Touch(s, CURR(to_add)), CURR(curr)),
                               RIGHT(prev), to_add),
                         LEFT(curr), to_add),
                   RIGHT(to_add), curr),
             LEFT(to_add), prev)
  ELSE insert_walk(Touch(Touch(Touch(s, CURR(to_add)), CURR(curr)),
                         RIGHT(curr)),
                   curr, Load(s, RIGHT(curr)), to_add, fuel - 1)

insert_in_place(s, head, to_add) ==
  insert_walk(Touch(Require(s, head # Zero), RIGHT(head)), head,
              Load(s, RIGHT(head)), to_add, WalkFuel)

\* int i=0; while(to_add->curr_chunk_size > wmalloc_ptr->bin_index[i]) i++;
\* (size is to_add->curr_chunk_size; the accesses were checked by add_chunk)
add_chunk_scan(s, size) ==
  FirstStop({i \in 0..(NUM_BINS - 1) : ~Gt64(size, BinIndexTable(s)[i + 1])})

\* insert_in_place(wmalloc_ptr->bin[i], to_add);
AddToBin(s, i, to_add) ==
  insert_in_place(Touch(s, BinAddr(s, i)), bin(s, i), to_add)

add_chunk(s, to_add) ==
  AddToBin(Touch(Touch(Require(s, to_add # Zero), CURR(to_add)),
                 BinIndexAddr(s, 0)),
           add_chunk_scan(s, Load(s, CURR(to_add))), to_add)

\* int i=1; while(request_length > wmalloc_ptr->bin_index[i] && i<NUM_BINS) i++;
find_bin_scan(s, request_length) ==
  FirstStop({i \in 1..(NUM_BINS - 1) :
               ~(Gt64(request_length, BinIndexTable(s)[i + 1])
                 /\ i < NUM_BINS)})

find_bin(s, request_length) ==
  Ret(Touch(s, BinIndexAddr(s, 1)), find_bin_scan(s, request_length))

\* the stores of remove_chunk, given the two neighbours it read
Unlink(s, to_remove, left_neighbor, right_neighbor) ==
  Store(Store(IF right_neighbor = Zero
              THEN Store(s, RIGHT(left_neighbor), Zero)
              ELSE Store(Store(s, RIGHT(left_neighbor), right_neighbor),
                         LEFT(right_neighbor), left_neighbor),
              RIGHT(to_remove), Zero),
        LEFT(to_remove), Zero)

\* the call remove_chunk(to_remove) is noted in the state
Noted(s, to_remove) ==
  IF s.fault # "" THEN s ELSE [s EXCEPT !.unlinked = @ \cup {to_remove}]

remove_chunk(s, to_remove) ==
  Ret(Unlink(Touch(Touch(Noted(s, to_remove), LEFT(to_remove)),
                   RIGHT(to_remove)), to_remove,
             Load(s, LEFT(to_remove)), Load(s, RIGHT(to_remove))),
      to_remove)

RECURSIVE search_walk(_, _, _, _)
search_walk(s, curr, request_length, fuel) ==
  IF s.fault # "" \/ curr = Zero THEN Ret(s, curr)
  ELSE IF fuel = 0 THEN Ret(Fault(s, "hang"), curr)
  ELSE IF ~Valid(s, CURR(curr)) THEN Ret(Fault(s, "segv"), curr)
  ELSE IF Ge64(Load(s, CURR(curr)), request_length)
  THEN remove_chunk(s, curr)
  ELSE search_walk(Touch(s, RIGHT(curr)), Load(s, RIGHT(curr)),
                   request_length, fuel - 1)

\* request_length arrives as int and is converted back for the comparison
search_bin(s, i, request_length) ==
  search_walk(Touch(s, BinAddr(s, i)), bin(s, i), IntOf(request_length),
              WalkFuel + 1)

\* the loop of check_bigger_bins from i on, k being the first bin from i on
\* whose list is not empty (NUM_BINS if there is none)
\* (the heads initialize_wmalloc stored lie in the engine record, so that
\* reading their right_ptr cannot fail)
TakeFirst(s, i, k) ==
  IF ~TablesIntact(s)
     /\ \E j \in i..(NUM_BINS - 1) :
          j <= k /\ ~Valid(s, RIGHT(BinTable(s)[j + 1]))
  THEN Ret(Fault(s, "segv"), Zero)
  ELSE IF k < NUM_BINS
  THEN remove_chunk(s, Load(s, RIGHT(BinTable(s)[k + 1])))
  ELSE Ret(s, Zero)

\* while(i < NUM_BINS){ if(bin[i]->right_ptr != NULL){...; break;} i++; }
bigger_scan(s, i) ==
  IF s.fault # "" THEN Ret(s, Zero)
  ELSE TakeFirst(s, i, FirstStop({j \in i..(NUM_BINS - 1) :
                                    Load(s, RIGHT(BinTable(s)[j + 1])) # Zero}))

check_bigger_bins(s, i) == bigger_scan(Touch(s, BinAddr(s, 0)), i + 1)

(***************************************************************************)
(* Initialization.  env is what the OS answers during the call: sbrkOK and *)
(* mmapOK say whether sbrk and mmap succeed, gap is the distance mmap      *)
(* leaves between the end of the last region and the new one.              *)
(***************************************************************************)
\* wmalloc_ptr = sbrk(sizeof(struct wmalloc_info)); sbrk returns (void*)-1
\* when it fails.  On success the record is mapped and the loops write what
\* ImageWord describes: 46 sentinels of size 0 with NULL links, bin[i] =
\* &dummy[i], and the bounds of initialize_bin_indices.
initialize_wmalloc(s, env) ==
  LET s1 == [s EXCEPT !.wp = IF env.sbrkOK THEN InfoPtr ELSE AllOnes,
                      !.refused = IF env.sbrkOK THEN @ ELSE "sbrk"]
  IN IF s1.wp = AllOnes THEN Ret(s1, -1) ELSE Ret(s1, 1)

(***************************************************************************)
(* Allocation                                                              *)
(***************************************************************************)
NextBase(s, env) ==
  IF s.regions = <<>> THEN U64(HeapBase)
  ELSE Add64(Add64(s.regions[Len(s.regions)].base,
                   s.regions[Len(s.regions)].len),
             U64(env.gap))

\* mmap(NULL, len, ...) maps len bytes of zeroes or fails
MmapSucceeds(s, len, env) ==
  /\ env.mmapOK
  /\ len # Zero
  /\ Len(s.regions) < MaxRegions
  /\ Le64(len, AddrLimit)
  /\ Le64(Add64(NextBase(s, env), len), AddrLimit)

\* required_length rounded up to a multiple of PAGE_SIZE
PageCeil(w) ==
  IF w[1] % PAGE_SIZE = 0 THEN w ELSE Add64(PageFloor(w), U64(PAGE_SIZE))

\* a length of one page more than required_length rounded up to pages
MmapLengthRoundedUp(required_length) ==
  IF Le64(required_length, U64(MMAP_SIZE)) THEN U64(MMAP_SIZE)
  ELSE Add64(PageCeil(required_length), U64(PAGE_SIZE))

\* the length allocate_chunk asks mmap for
MmapLength(required_length) ==
  IF Le64(required_length, U64(MMAP_SIZE)) THEN U64(MMAP_SIZE)
  ELSE Add64(PageFloor(required_length), U64(PAGE_SIZE))

\* the boundary words allocate_chunk writes into the fresh region
Mapped(s, new_chunk, mmap_length) ==
  Ret(set_next_chunk_size(
        Store(set_prev_chunk_size(s, new_chunk, Zero),
              CURR(new_chunk), mmap_length),
        new_chunk, Zero),
      new_chunk)

allocate_chunk(s, required_length, env) ==
  IF s.fault # "" THEN Ret(s, Zero)
  ELSE IF ~MmapSucceeds(s, MmapLength(required_length), env)
  THEN Ret([s EXCEPT !.mmaps = @ + 1, !.refused = "mmap"], Zero)
  ELSE Mapped([s EXCEPT !.mmaps = @ + 1,
                        !.regions =
                          Append(@, [base |-> NextBase(s, env),
                                     len |-> MmapLength(required_length)])],
              NextBase(s, env), MmapLength(required_length))

\* split_chunk from  new_chunk->curr_chunk_size = next_chunk_size  on
PlaceResidue(s, to_remove, new_chunk, next_chunk_size, save_chunk_size) ==
  add_chunk(
    set_next_chunk_size(
      set_prev_chunk_size(
        Store(s, CURR(new_chunk), next_chunk_size), new_chunk,
        Load(Store(s, CURR(new_chunk), next_chunk_size), CURR(to_remove))),
      new_chunk, save_chunk_size),
    new_chunk)

\* split_chunk from  set_next_chunk_size(to_remove, next_chunk_size)  on
Carve(s, to_remove, next_chunk_size, save_chunk_size) ==
  PlaceResidue(
    set_next_chunk_size(s, to_remove, next_chunk_size), to_remove,
    Add64(to_remove,
          Load(set_next_chunk_size(s, to_remove, next_chunk_size),
               CURR(to_remove))),
    next_chunk_size, save_chunk_size)

\* split_chunk after its assert
SplitChecked(s, to_remove, required_length) ==
  IF Ge64(Load(s, CURR(to_remove)),
          Add64(required_length, U64(MINIMUM_CHUNK_SIZE)))
  THEN set_unavailable(
         Carve(Store(get_next_chunk_size(s, to_remove).s, CURR(to_remove),
                     required_length),
               to_remove,
               Sub64(Load(s, CURR(to_remove)), required_length),
               get_next_chunk_size(s, to_remove).v),
         to_remove)
  ELSE set_unavailable(s, to_remove)

split_chunk(s, to_remove, required_length) ==
  SplitChecked(Touch(Require(s, to_remove # Zero), CURR(to_remove)),
               to_remove, required_length)

\* necessary_length of wmalloc
NecessaryLength(request_length) ==
  IF Lt64(Add64(request_length, U64(CHUNK_OVERHEAD)), U64(MINIMUM_CHUNK_SIZE))
  THEN U64(MINIMUM_CHUNK_SIZE)
  ELSE Add64(request_length, U64(CHUNK_OVERHEAD))

\* wmalloc from split_chunk on, ac being the chunk found and the state
Split(ac, necessary_length) ==
  Ret(split_chunk(ac.s, ac.v, necessary_length), Add64(ac.v, U64(16)))

\* wmalloc from the second  if(to_remove == NULL)  on
FromOS(cb, necessary_length, env) ==
  Split(IF cb.v = Zero THEN allocate_chunk(cb.s, necessary_length, env)
        ELSE cb,
        necessary_length)

\* wmalloc from the first  if(to_remove == NULL)  on
FromBiggerBins(sb, i, necessary_length, env) ==
  FromOS(IF sb.v = Zero THEN check_bigger_bins(sb.s, i) ELSE sb,
         necessary_length, env)

\* wmalloc from search_bin on, fb being the bin found and the state
FromBin(fb, necessary_length, env) ==
  FromBiggerBins(search_bin(fb.s, fb.v, necessary_length), fb.v,
                 necessary_length, env)

\* wmalloc after the initialization, ini being its result and the state
Initialized(ini, necessary_length, env) ==
  IF ini.v = -1 THEN Ret(ini.s, Zero)
  ELSE FromBin(find_bin(ini.s, necessary_length), necessary_length, env)

\* the value wmalloc returns and the state it leaves
wmalloc(s, request_length, env) ==
  Initialized(IF s.wp = Zero THEN initialize_wmalloc(s, env) ELSE Ret(s, 1),
              NecessaryLength(request_length), env)

(***************************************************************************)
(* Release                                                                 *)
(***************************************************************************)
join_chunks(s, first, second) ==
  Ret(set_adjacent_sizes(
        Store(Touch(Touch(s, CURR(first)), CURR(second)), CURR(first),
              Add64(Load(s, CURR(first)), Load(s, CURR(second)))),
        first, 1),
      first)

\* ch = join_chunks(remove_chunk(get_prev_chunk(ch)), ch), pc being the
\* previous chunk and the state
JoinPrev(pc, ch) ==
  join_chunks(remove_chunk(pc.s, pc.v).s, remove_chunk(pc.s, pc.v).v, ch)

\* wfree's first if, pa being the result of is_prev_available and the state
PrevSide(pa, ch) ==
  IF pa.v = 1 THEN JoinPrev(get_prev_chunk(pa.s, ch), ch) ELSE Ret(pa.s, ch)

\* ch = join_chunks(ch, remove_chunk(get_next_chunk(ch))), nc being the
\* next chunk and the state
JoinNext(nc, ch) ==
  join_chunks(remove_chunk(nc.s, nc.v).s, ch, remove_chunk(nc.s, nc.v).v)

\* wfree's second if, na being the result of is_next_available and the state
NextSide(na, ch) ==
  IF na.v = 1 THEN JoinNext(get_next_chunk(na.s, ch), ch) ELSE Ret(na.s, ch)

\* wfree from its second if on, j being the chunk so far and the state
Rejoin(j) == NextSide(is_next_available(j.s, j.v), j.v)

\* add_chunk(ch), j being the chunk to insert and the state
Reinsert(j) == add_chunk(j.s, j.v)

wfree(s, to_free) ==
  Reinsert(Rejoin(PrevSide(
    is_prev_available(set_available(s, Sub64(to_free, U64(16))),
                      Sub64(to_free, U64(16))),
    Sub64(to_free, U64(16)))))

(***************************************************************************)
(* The caller.  live lists the buffers the caller holds, oldest first: the *)
(* pointer, the byte count asked for, and whether the caller has written   *)
(* to it.  A caller write fills the first min(n, FillBytes) bytes of a     *)
(* buffer with 0xff.                                                       *)
(***************************************************************************)
\* bytes of a buffer a caller write fills (a model bound)
FillBytes == 32

\* stores of a list node's address in one run
MaxLinks == 2

\* byte counts the caller asks for
Requests == {U64(1), U64(17), U64(56)}
\* 2^64 - 1, 2^31, 2^32 + 16, and one small count
HugeRequests == {AllOnes, <<0, 128, 0>>, <<16, 256, 0>>, U64(1)}

Gaps == {0, PAGE_SIZE}

\* the word at a with its bytes from the (8 * j)-th of c on set to 0xff
Filled(s, a, c, j) ==
  FromBytes([i \in 1..8 |->
               IF 8 * j + i - 1 < c THEN 255 ELSE Bytes(Load(s, a))[i]])

RECURSIVE fill_words(_, _, _, _)
\* memset(p, 0xff, c), one word at a time
fill_words(s, p, c, j) ==
  IF ~(8 * j < c) THEN s
  ELSE fill_words(Store(Touch(s, Add64(p, U64(8 * j))),
                        Add64(p, U64(8 * j)),
                        Filled(s, Add64(p, U64(8 * j)), c, j)),
                  p, c, j + 1)

FillCount(n) == IF IsSmall(n) /\ Val(n) < FillBytes THEN Val(n) ELSE FillBytes

(***************************************************************************)
(* State machine                                                           *)
(***************************************************************************)
S == [mem |-> mem, regions |-> regions, wp |-> wmalloc_ptr, fault |-> "",
      mmaps |-> 0, refused |-> "", unlinked |-> {}]

\* the record of one call: what it was, its argument, the pointer it
\* returned or took, the mmap calls it made, the OS call that failed during
\* it if one did, the chunks it passed to remove_chunk, and how it ended
Event(op, n, p, s) ==
  [op |-> op, n |-> n, p |-> p, mmaps |-> s.mmaps, refused |-> s.refused,
   unlinked |-> s.unlinked, end |-> IF s.fault = "" THEN "ok" ELSE s.fault]

\* hist keeps the last three calls
Push(h, e) == IF Len(h) < 3 THEN Append(h, e) ELSE Append(Tail(h), e)

\* the call returned: its effects stand
Commit(s) ==
  /\ mem' = s.mem
  /\ regions' = s.regions
  /\ wmalloc_ptr' = s.wp
  /\ status' = "ok"

\* the process died during the call
Crash(s) ==
  /\ UNCHANGED <<mem, regions, wmalloc_ptr>>
  /\ status' = s.fault

Remove(q, k) == SubSeq(q, 1, k - 1) \o SubSeq(q, k + 1, Len(q))

OkEnv == [sbrkOK |-> TRUE, mmapOK |-> TRUE, gap |-> 0]

\* the answers of the OS that a call of wmalloc can meet, given what the
\* call does when the OS grants everything (r0): sbrk is called only by the
\* first call, mmap only when the bins cannot serve the request, and the
\* first region lies at HeapBase
Envs(r0) ==
  {e \in [sbrkOK : BOOLEAN, mmapOK : BOOLEAN, gap : Gaps] :
     /\ (wmalloc_ptr # Zero => e.sbrkOK)
     /\ (r0.s.mmaps = 0 \/ ~e.sbrkOK => e.mmapOK)
     /\ (r0.s.mmaps = 0 \/ ~e.sbrkOK \/ ~e.mmapOK \/ regions = <<>>
           => e.gap = 0)}

Init ==
  /\ mem = <<>>
  /\ wmalloc_ptr = Zero
  /\ regions = <<>>
  /\ live = <<>>
  /\ status = "ok"
  /\ hist = <<>>
  /\ nops = 0
  /\ nwrites = 0
  /\ lifo = TRUE

\* wmalloc has handed back r
MallocReturns(r, n) ==
  /\ IF r.s.fault # "" THEN Crash(r.s) ELSE Commit(r.s)
  /\ live' = IF r.s.fault = "" /\ r.v # Zero
             THEN Append(live, [p |-> r.v, n |-> n, w |-> FALSE])
             ELSE live
  /\ hist' = Push(hist, Event("malloc", n, r.v, r.s))

\* the call under each answer of the OS it can meet
MallocUnder(r0, n) ==
  \E env \in Envs(r0) :
    MallocReturns(IF env = OkEnv THEN r0 ELSE wmalloc(S, n, env), n)

\* p = wmalloc(n)
Malloc(n) ==
  /\ status = "ok"
  /\ nops < MaxOps
  /\ MallocUnder(wmalloc(S, n, OkEnv), n)
  /\ nops' = nops + 1
  /\ UNCHANGED <<nwrites, lifo>>

\* wfree has left s
FreeReturns(s, k) ==
  /\ IF s.fault # "" THEN Crash(s) ELSE Commit(s)
  /\ hist' = Push(hist, Event("free", live[k].n, live[k].p, s))
  /\ live' = IF s.fault # "" THEN live ELSE Remove(live, k)

\* wfree(p) for the k-th buffer the caller holds
Free(k) ==
  /\ status = "ok"
  /\ nops < MaxOps
  /\ FreeReturns(wfree(S, live[k].p), k)
  /\ lifo' = (lifo /\ k = Len(live))
  /\ nops' = nops + 1
  /\ UNCHANGED nwrites

\* the caller's stores have left s
Written(s) == IF s.fault # "" THEN Crash(s) ELSE Commit(s)

\* the caller writes to the k-th buffer it holds
Write(k) ==
  /\ status = "ok"
  /\ nwrites < MaxWrites
  /\ ~live[k].w
  /\ Written(fill_words(S, live[k].p, FillCount(live[k].n), 0))
  /\ live' = [live EXCEPT ![k].w = TRUE]
  /\ nwrites' = nwrites + 1
  /\ UNCHANGED <<hist, nops, lifo>>

Next ==
  \/ \E n \in Requests : Malloc(n)
  \/ \E k \in 1..Len(live) : Free(k)
  \/ \E k \in 1..Len(live) : Write(k)

Spec == Init /\ [][Next]_vars

\* a caller asking for the byte counts of HugeRequests, who holds its
\* buffers without writing to them
NextHuge ==
  \/ \E n \in HugeRequests : Malloc(n)
  \/ \E k \in 1..Len(live) : Free(k)

SpecHuge == Init /\ [][NextHuge]_vars

\* byte counts of a caller whose buffers hold the nodes of a list
NodeRequests == {U64(8), U64(56)}

\* *(void**)p = p: the caller stores the address of the k-th buffer it
\* holds in the buffer's first word, as the node of a circular list does
Link(k) ==
  /\ status = "ok"
  /\ nwrites < MaxLinks
  /\ Written(Store(Touch(S, live[k].p), live[k].p, live[k].p))
  /\ live' = [live EXCEPT ![k].w = TRUE]
  /\ nwrites' = nwrites + 1
  /\ UNCHANGED <<hist, nops, lifo>>

NextNode ==
  \/ \E n \in NodeRequests : Malloc(n)
  \/ \E k \in 1..Len(live) : Free(k)
  \/ \E k \in 1..Len(live) : Link(k)

SpecNode == Init /\ [][NextNode]_vars

\* byte counts of a caller that asks for 33 pages less 64 bytes, so that
\* the region mapped for it exceeds the chunk it gets by 40 bytes, and for
\* 33 pages less 24 bytes, so that the chunk it gets is a whole number of
\* pages
PageRequests ==
  {U64(33 * PAGE_SIZE - 64), U64(33 * PAGE_SIZE - CHUNK_OVERHEAD), U64(1)}

NextPage ==
  \/ \E n \in PageRequests : Malloc(n)
  \/ \E k \in 1..Len(live) : Free(k)

SpecPage == Init /\ [][NextPage]_vars

(***************************************************************************)
(* What the claims speak of: the chunks of a region, found by walking from *)
(* the region start by each chunk's own size; the chunks the caller holds; *)
(* the words the engine keeps its bookkeeping in; the last calls.          *)
(***************************************************************************)
\* a region holds at most one chunk per call besides its first
MaxChunks == MaxOps + 2

\* ch->curr_chunk_size as it stands in memory
SizeOf(ch) == RdWord(mem, CURR(ch))

\* the caller holds the buffer of chunk ch
Allocated(ch) == \E k \in 1..Len(live) : live[k].p = Add64(ch, <<16, 0, 0>>)

RECURSIVE ChunksFrom(_, _, _)
\* the walk stops at the region end, or at a chunk whose size leads nowhere
ChunksFrom(ch, end, fuel) ==
  IF ch = end \/ fuel = 0 THEN <<>>
  ELSE LET nx == Add64(ch, SizeOf(ch))
       IN IF Lt64(ch, nx) /\ Le64(nx, end)
          THEN <<ch>> \o ChunksFrom(nx, end, fuel - 1)
          ELSE <<ch>>

ChunksOf(r) == ChunksFrom(r.base, Add64(r.base, r.len), MaxChunks)

\* the size word a neighbour keeps about a chunk: its size, bit 63 set
\* while the chunk is in use
BoundaryWord(ch) ==
  IF Allocated(ch) THEN Add64(SizeOf(ch), TopBit) ELSE SizeOf(ch)

\* the addresses of the words the engine uses as metadata
MetaWords ==
  UNION {UNION {{PREV(ch), CURR(ch), TrailAddr(S, ch)}
                  \cup (IF Allocated(ch) THEN {} ELSE {LEFT(ch), RIGHT(ch)}) :
                ch \in {ChunksOf(regions[k])[i] :
                          i \in 1..Len(ChunksOf(regions[k]))}} :
         k \in 1..Len(regions)}

\* the byte ranges [p, p+n) and [a, a+m) meet (addresses modulo 2^64)
Meets(p, n, a, m) == Lt64(Sub64(a, p), n) \/ Lt64(Sub64(p, a), m)

\* the last call, and whether it was an allocate that returned a pointer
Last == hist[Len(hist)]
Returned ==
  hist # <<>> /\ Last.op = "malloc" /\ Last.end = "ok" /\ Last.p # Zero

\* the last three calls were allocate(n) = p, release(p), allocate(n)
AllocFreeAlloc ==
  /\ Len(hist) = 3
  /\ hist[1].op = "malloc" /\ hist[1].end = "ok" /\ hist[1].p # Zero
  /\ hist[2].op = "free" /\ hist[2].end = "ok" /\ hist[2].p = hist[1].p
  /\ hist[3].op = "malloc" /\ hist[3].n = hist[1].n

RECURSIVE ListFrom(_, _)
\* the chunks of a bin list from ch on
ListFrom(ch, fuel) ==
  IF ch = Zero \/ fuel = 0 THEN <<>>
  ELSE <<ch>> \o ListFrom(RdWord(mem, RIGHT(ch)), fuel - 1)

\* the chunks linked in bin i, behind its sentinel
BinChunks(i) == ListFrom(RdWord(mem, RIGHT(bin(S, i))), MaxChunks)

\* the places <<i, j>> of the bin lists: the j-th chunk of bin i
BinPlaces ==
  {<<i, j>> \in (0..(NUM_BINS - 1)) \X (1..MaxChunks) :
     j <= Len(BinChunks(i))}

RECURSIVE SumSizes(_)
SumSizes(places) ==
  IF places = {} THEN Zero
  ELSE LET e == CHOOSE x \in places : TRUE
       IN Add64(SizeOf(BinChunks(e[1])[e[2]]), SumSizes(places \ {e}))

\* for every bin, for every chunk in it: total = total + curr->curr_chunk_size
calc_mem_available == SumSizes(BinPlaces)

RECURSIVE RegionTotal(_)
RegionTotal(k) == IF k = 0 THEN Zero ELSE Add64(regions[k].len, RegionTotal(k - 1))

(***************************************************************************)
(* Claims                                                                  *)
(***************************************************************************)
\* C1: the payload ranges [p, p+n) of the buffers the caller holds are
\* pairwise disjoint and contain no word the engine uses as metadata (the
\* leading, own and trailing size words of any chunk, the two link words of
\* any free chunk).
C1_PayloadsConfined ==
  /\ \A j, k \in 1..Len(live) :
       j < k => ~Meets(live[j].p, live[j].n, live[k].p, live[k].n)
  /\ \A k \in 1..Len(live) : \A a \in MetaWords :
       ~Meets(live[k].p, live[k].n, a, <<8, 0, 0>>)

\* C2: a non-null pointer returned by allocate(n) is chunk start + 16 of a
\* chunk whose size is at least n + 24 (as numbers, not modulo 2^64).
C2_ChunkHoldsRequest ==
  Returned =>
    LET size == SizeOf(Sub64(Last.p, <<16, 0, 0>>))
    IN /\ Ge64(size, <<CHUNK_OVERHEAD, 0, 0>>)
       /\ Ge64(Sub64(size, <<CHUNK_OVERHEAD, 0, 0>>), Last.n)

\* C3: every non-null pointer returned by allocate is a multiple of 8.
C3_Aligned == Returned => Last.p[1] % 8 = 0

\* C4: when the OS refuses the mapping an allocate asks for, the call
\* returns the null pointer and leaves memory and regions as they were.
C4_MmapFailureReturnsNull ==
  [][(nops' # nops /\ Last'.op = "malloc" /\ Last'.refused = "mmap")
       => (status' = "ok" /\ Last'.p = Zero /\ mem' = mem
           /\ regions' = regions)]_vars

\* C5: when sbrk fails in the first allocate, the call returns null and
\* wmalloc_ptr stays NULL, so that the next allocate initializes again.
C5_SbrkFailureLeavesUninitialized ==
  (hist # <<>> /\ Last.op = "malloc" /\ Last.refused = "sbrk")
    => (Last.end = "ok" /\ Last.p = Zero /\ wmalloc_ptr = Zero)

\* C6: after allocate(n) = p, release(p), the next allocate(n) makes no
\* mmap call.
C6_ReallocNeedsNoMapping == AllocFreeAlloc => hist[3].mmaps = 0

\* C7: on a fresh engine allocate(n) = p, release(p), allocate(n) returns p
\* again (the OS granting whatever the calls ask of it).
C7_FreshReallocSamePointer ==
  (nops = 3 /\ AllocFreeAlloc /\ hist[3].refused = "")
    => (hist[3].end = "ok" /\ hist[3].p = hist[1].p)

\* C8: when every release freed the buffer allocated last among those
\* held, and no buffer is held any more, each region is one free chunk that
\* spans it and the sizes of the chunks in the bins add up to the sizes of
\* the regions.
C8_StackDrainCoalesces ==
  (lifo /\ live = <<>> /\ status = "ok" /\ regions # <<>>)
    => /\ \A k \in 1..Len(regions) :
            /\ ChunksOf(regions[k]) = <<regions[k].base>>
            /\ SizeOf(regions[k].base) = regions[k].len
       /\ calc_mem_available = RegionTotal(Len(regions))

\* C9: no two chunks adjacent in memory are both free.
C9_NoAdjacentFree ==
  \A k \in 1..Len(regions) :
    LET cs == ChunksOf(regions[k])
    IN \A i \in 1..(Len(cs) - 1) : Allocated(cs[i]) \/ Allocated(cs[i + 1])

\* C10: for chunks A, B adjacent in memory, A before B, A's trailing word
\* holds B's size and in-use flag and B's leading word holds A's size and
\* in-use flag.
C10_BoundaryWordsAgree ==
  \A k \in 1..Len(regions) :
    LET cs == ChunksOf(regions[k])
    IN \A i \in 1..(Len(cs) - 1) :
         /\ RdWord(mem, TrailAddr(S, cs[i])) = BoundaryWord(cs[i + 1])
         /\ RdWord(mem, PREV(cs[i + 1])) = BoundaryWord(cs[i])

\* the byte at address a of memory m
ByteAt(m, a) == Bytes(Cell(m, AlignDown(a)))[(a[1] % 8) + 1]

\* the chunks of the regions, as the walks from the region starts find them
AllChunks ==
  UNION {{ChunksOf(regions[k])[i] : i \in 1..Len(ChunksOf(regions[k]))} :
         k \in 1..Len(regions)}

\* u is a free chunk that lies directly before or directly behind chunk c
FreeNeighbour(u, c) ==
  /\ u \in AllChunks
  /\ ~Allocated(u)
  /\ (Add64(u, SizeOf(u)) = c \/ Add64(c, SizeOf(c)) = u)

\* the bytes of buffer b that the caller may use
PayloadBytes(b) == IF IsSmall(b.n) THEN 0..(Val(b.n) - 1) ELSE {}

\* C11: a release unlinks only chunks that are free and lie directly before
\* or behind the released chunk, and it changes neither the size word nor a
\* payload byte of any chunk that stays allocated.
C11_ReleaseSparesAllocated ==
  [][(nops' # nops /\ Last'.op = "free")
       => /\ \A u \in Last'.unlinked :
               FreeNeighbour(u, Sub64(Last'.p, <<16, 0, 0>>))
          /\ \A j \in 1..Len(live) :
               live[j].p # Last'.p
                 => /\ RdWord(mem', CURR(Sub64(live[j].p, <<16, 0, 0>>)))
                         = SizeOf(Sub64(live[j].p, <<16, 0, 0>>))
                    /\ \A i \in PayloadBytes(live[j]) :
                         ByteAt(mem', Add64(live[j].p, U64(i)))
                           = ByteAt(mem, Add64(live[j].p, U64(i)))]_vars

\* the regions that hold address a
RegionsAt(a) ==
  {k \in 1..Len(regions) :
     Le64(regions[k].base, a)
       /\ Lt64(a, Add64(regions[k].base, regions[k].len))}

\* bit 63 of the size word at address a
FlagAt(a) == Shr63(RdWord(mem, a))

\* the chunk allocate has just returned
LastChunk == Sub64(Last.p, <<16, 0, 0>>)

\* C12: after allocate has returned chunk X, the trailing word of the chunk
\* before X and the leading word of the chunk behind X (a split residue
\* included) carry flag 1, and X's trailing word carries flag 0 exactly
\* when the chunk behind X is free.
C12_NeighbourFlagsAfterAllocate ==
  Returned =>
    \A k \in RegionsAt(LastChunk) :
      /\ LastChunk # regions[k].base
           => FlagAt(Sub64(LastChunk, <<8, 0, 0>>)) = 1
      /\ Add64(LastChunk, SizeOf(LastChunk))
             # Add64(regions[k].base, regions[k].len)
           => /\ FlagAt(PREV(Add64(LastChunk, SizeOf(LastChunk)))) = 1
              /\ (FlagAt(TrailAddr(S, LastChunk)) = 0
                    <=> ~Allocated(Add64(LastChunk, SizeOf(LastChunk))))

\* C13: every chunk, allocated or free, has a size that is a multiple of 8
\* and at least 40.
C13_ChunkSizesRounded ==
  \A ch \in AllChunks :
    /\ SizeOf(ch)[1] % 8 = 0
    /\ Ge64(SizeOf(ch), U64(MINIMUM_CHUNK_SIZE))

\* the upper size bound U(i) of bin i
U(i) == initialize_bin_indices[i + 1]

\* the lowest-indexed bin whose bound is not below size
BinOf(size) == FirstStop({i \in 0..(NUM_BINS - 1) : Le64(size, U(i))})

\* the chunks linked in the bins, each with the index of its bin
Linked == {<<pl[1], pl[2], BinChunks(pl[1])[pl[2]]>> : pl \in BinPlaces}

\* the 46 sentinel nodes
Sentinels == {DummyPtrs[i] : i \in 1..NUM_BINS}

\* C14: every free chunk is linked at exactly one place, in the lowest bin
\* whose bound is not below its size; no allocated chunk is linked; the
\* sentinels head their bins, are linked in no list, are never passed to
\* remove_chunk and are never handed to the caller.
C14_BinMembership ==
  wmalloc_ptr = InfoPtr =>
    LET linked == Linked
    IN /\ \A ch \in AllChunks :
            IF Allocated(ch) THEN \A l \in linked : l[3] # ch
            ELSE /\ Cardinality({l \in linked : l[3] = ch}) = 1
                 /\ \A l \in linked : l[3] = ch => l[1] = BinOf(SizeOf(ch))
       /\ \A i \in 0..(NUM_BINS - 1) : bin(S, i) = DummyPtrs[i + 1]
       /\ \A l \in linked : l[3] \notin Sentinels
       /\ \A e \in 1..Len(hist) :
            /\ hist[e].unlinked \cap Sentinels = {}
            /\ Sub64(hist[e].p, <<16, 0, 0>>) \notin Sentinels

RECURSIVE ListIn(_, _, _)
\* the nodes reached from ch by right_ptr in memory m
ListIn(m, ch, fuel) ==
  IF ch = Zero \/ fuel = 0 THEN <<>>
  ELSE <<ch>> \o ListIn(m, RdWord(m, RIGHT(ch)), fuel - 1)

\* bin i in memory m as a list, its sentinel first
BinList(m, i) == ListIn(m, DummyPtrs[i + 1], MaxChunks + 2)

\* the place of chunk x in the sequence q, 0 when it is not in q
PlaceIn(q, x) == IF \E j \in 1..Len(q) : q[j] = x
                 THEN CHOOSE j \in 1..Len(q) : q[j] = x ELSE 0

\* the list q ends in a null successor without visiting a node twice, each
\* successor points back, and the sizes do not decrease
WellFormed(q) ==
  /\ Len(q) < MaxChunks + 2
  /\ \A a, b \in 1..Len(q) : a # b => q[a] # q[b]
  /\ \A j \in 1..(Len(q) - 1) :
       /\ RdWord(mem, LEFT(q[j + 1])) = q[j]
       /\ Le64(SizeOf(q[j]), SizeOf(q[j + 1]))

\* every chunk of the list after, that was not in the list before, stands
\* behind the chunks of its size that were
EqualsBefore(m, before, after) ==
  \A x \in 1..Len(after) :
    PlaceIn(before, after[x]) = 0 =>
      \A y \in 1..Len(after) :
        (PlaceIn(before, after[y]) # 0
           /\ RdWord(m, CURR(after[y])) = RdWord(m, CURR(after[x])))
          => y < x

\* C15: in every state each bin is an acyclic doubly-linked list from its
\* sentinel to a null successor, every successor points back at its
\* predecessor and sizes never decrease along the list; and a chunk linked
\* by a step stands behind all chunks of equal size already in its bin.
C15_BinsWellFormed ==
  /\ [](wmalloc_ptr = InfoPtr =>
          \A i \in 0..(NUM_BINS - 1) : WellFormed(BinList(mem, i)))
  /\ [][wmalloc_ptr = InfoPtr =>
          \A i \in 0..(NUM_BINS - 1) :
            EqualsBefore(mem', BinList(mem, i), BinList(mem', i))]_vars

RECURSIVE LiveTotal(_)
\* the sizes of the chunks of the first k buffers the caller holds, summed
LiveTotal(k) ==
  IF k = 0 THEN Zero
  ELSE Add64(SizeOf(Sub64(live[k].p, <<16, 0, 0>>)), LiveTotal(k - 1))

\* the walk over region r by the chunks' own sizes ends at the region end
Tiled(r) ==
  LET q == ChunksOf(r)
  IN /\ q # <<>>
     /\ Add64(q[Len(q)], SizeOf(q[Len(q)])) = Add64(r.base, r.len)

\* C16: in every state the chunks of each region tile it (the walk from the
\* region start by each chunk's size ends at the region end), and the sizes
\* of the chunks in the bins plus the sizes of the chunks the caller holds
\* add up to the sizes of the regions acquired.
C16_RegionsTiled ==
  wmalloc_ptr = InfoPtr =>
    /\ \A k \in 1..Len(regions) : Tiled(regions[k])
    /\ Add64(calc_mem_available, LiveTotal(Len(live)))
         = RegionTotal(Len(regions))

\* n + 24 and max(n + 24, 40) + 40 as numbers: whether they fit 64 bits
TotalFits(n) ==
  /\ Le64(n, Add64(n, U64(CHUNK_OVERHEAD)))
  /\ Le64(U64(MINIMUM_CHUNK_SIZE),
          Add64(NecessaryLength(n), U64(MINIMUM_CHUNK_SIZE)))

\* the chunks linked in the bins of memory m
LinkedIn(m) ==
  UNION {{BinList(m, i)[j] : j \in 2..Len(BinList(m, i))} :
         i \in 0..(NUM_BINS - 1)}

\* the split rule for the chunk ch of size Sc that served a request of n
\* bytes, between memory m and memory m2
SplitRule(m, m2, ch, Sc, n) ==
  IF TotalFits(n)
     /\ Ge64(Sc, Add64(NecessaryLength(n), U64(MINIMUM_CHUNK_SIZE)))
  THEN /\ RdWord(m2, CURR(ch)) = NecessaryLength(n)
       /\ RdWord(m2, CURR(Add64(ch, NecessaryLength(n))))
            = Sub64(Sc, NecessaryLength(n))
       /\ PlaceIn(BinList(m2, BinOf(Sub64(Sc, NecessaryLength(n)))),
                  Add64(ch, NecessaryLength(n))) # 0
  ELSE /\ RdWord(m2, CURR(ch)) = Sc
       /\ LinkedIn(m2) \subseteq LinkedIn(m)

\* C17: when wmalloc(n) returns a chunk that had size Sc (the size of the
\* chunk taken from a bin, or of the region just mapped), then with
\* R = max(n + 24, 40): if Sc >= R + 40 the chunk returned has size R and a
\* chunk of size Sc - R at (chunk + R) is linked in the bin of its size;
\* otherwise the chunk keeps size Sc and no chunk is added to any bin.
C17_SplitRule ==
  [][(nops' # nops /\ Last'.op = "malloc" /\ Last'.end = "ok"
        /\ Last'.p # Zero)
       => SplitRule(mem, mem', Sub64(Last'.p, <<16, 0, 0>>),
                    IF Last'.mmaps > 0 THEN regions'[Len(regions')].len
                    ELSE RdWord(mem, CURR(Sub64(Last'.p, <<16, 0, 0>>))),
                    Last'.n)]_vars

\* the release rule for chunk C, the j-th chunk of the walk q over its
\* region, between the state before and memory m2 after
ReleaseRule(q, j, C, m2) ==
  LET pf == j > 1 /\ ~Allocated(q[j - 1])
      nf == j < Len(q) /\ ~Allocated(q[j + 1])
      lo == IF pf THEN j - 1 ELSE j
      hi == IF nf THEN j + 1 ELSE j
  IN /\ LinkedIn(m2)
          = (LinkedIn(mem) \ {q[x] : x \in lo..hi}) \cup {q[lo]}
     /\ RdWord(m2, CURR(q[lo]))
          = Add64(SizeOf(C),
                  Add64(IF pf THEN SizeOf(q[j - 1]) ELSE Zero,
                        IF nf THEN SizeOf(q[j + 1]) ELSE Zero))
     /\ lo > 1 => Allocated(q[lo - 1])
     /\ hi < Len(q) => Allocated(q[hi + 1])

\* C18: when wfree(p) of chunk C returns, the bins hold what they held
\* before, less C's free immediate neighbours, plus one chunk: it starts at
\* C's preceding neighbour if that was free and at C otherwise, its size is
\* C's size plus the sizes of C's free immediate neighbours, and the chunks
\* before and behind it are not free.
C18_ReleaseMerges ==
  [][(nops' # nops /\ Last'.op = "free" /\ Last'.end = "ok")
       => \A k \in RegionsAt(Sub64(Last'.p, <<16, 0, 0>>)) :
            /\ PlaceIn(ChunksOf(regions[k]), Sub64(Last'.p, <<16, 0, 0>>)) # 0
            /\ ReleaseRule(ChunksOf(regions[k]),
                           PlaceIn(ChunksOf(regions[k]),
                                   Sub64(Last'.p, <<16, 0, 0>>)),
                           Sub64(Last'.p, <<16, 0, 0>>), mem')]_vars

\* C19: for the total R of every byte count the caller asks for, the scan
\* of find_bin, which starts at bin 1, stops at the same bin as the scan of
\* add_chunk, which starts at bin 0, namely at the lowest bin whose bound is
\* not below R, and that bin is not bin 0.
C19_LookupsAgree ==
  wmalloc_ptr = InfoPtr =>
    \A n \in Requests :
      /\ find_bin(S, NecessaryLength(n)).v
           = add_chunk_scan(S, NecessaryLength(n))
      /\ find_bin(S, NecessaryLength(n)).v = BinOf(NecessaryLength(n))
      /\ BinOf(NecessaryLength(n)) # 0

\* C20: a call of wmalloc(n) that asks the OS for a region finds no chunk
\* of size R = max(n + 24, 40) or more linked in any bin, bin 0 included.
C20_MapsOnlyWhenBinsFail ==
  [][(nops' # nops /\ Last'.op = "malloc" /\ Last'.mmaps > 0
        /\ wmalloc_ptr = InfoPtr)
       => \A ch \in LinkedIn(mem) :
            ~(/\ Le64(Last'.n, Add64(Last'.n, U64(CHUNK_OVERHEAD)))
              /\ Ge64(SizeOf(ch), NecessaryLength(Last'.n)))]_vars

\* a call of wmalloc has just mapped a region
JustMapped ==
  /\ nops' # nops
  /\ Last'.op = "malloc"
  /\ Len(regions') = Len(regions) + 1

\* C21 as stated: the region mapped for the total R has 131072 bytes when
\* R <= 131072 and otherwise (R / 4096 rounded up, plus one) pages.
C21_RegionSizeAsStated ==
  [][JustMapped =>
       regions'[Len(regions')].len
         = IF Le64(NecessaryLength(Last'.n), U64(MMAP_SIZE))
           THEN U64(MMAP_SIZE)
           ELSE Add64(PageCeil(NecessaryLength(Last'.n)), U64(PAGE_SIZE))]_vars

\* C21: the region mapped for the total R has 131072 bytes when R <= 131072
\* and otherwise (R / 4096 rounded down, plus one) pages: the smallest
\* multiple of 4096 above R.
C21_RegionSize ==
  [][JustMapped =>
       regions'[Len(regions')].len
         = IF Le64(NecessaryLength(Last'.n), U64(MMAP_SIZE))
           THEN U64(MMAP_SIZE)
           ELSE Add64(PageFloor(NecessaryLength(Last'.n)), U64(PAGE_SIZE))]_vars

\* a region of 33 pages was mapped for a total of 33 pages less 40 bytes
C21_Witness ==
  /\ Returned
  /\ Last.mmaps > 0
  /\ Last.n = U64(33 * PAGE_SIZE - 64)
  /\ regions[Len(regions)].len = U64(33 * PAGE_SIZE)

\* the free chunks of memory m: start address, size and bin index of every
\* chunk linked in a bin
FreeSetIn(m) ==
  UNION {{<<BinList(m, i)[j], RdWord(m, CURR(BinList(m, i)[j])), i>> :
            j \in 2..Len(BinList(m, i))} :
         i \in 0..(NUM_BINS - 1)}

\* wfree(p) right after p = wmalloc(n) returned r without asking the OS
\* leaves the free chunks of memory m
PairRestores(m, r) ==
  (r.s.fault = "" /\ r.s.mmaps = 0 /\ r.v # Zero)
    => /\ wfree(r.s, r.v).fault = ""
       /\ FreeSetIn(wfree(r.s, r.v).mem) = FreeSetIn(m)

\* C22: in every state in which wmalloc(n) is served without a new mapping,
\* p = wmalloc(n) followed at once by wfree(p) leaves the set of free chunks
\* (start address, size, bin index) as it was.
C22_PairRestoresFreeSet ==
  wmalloc_ptr = InfoPtr =>
    \A n \in Requests : PairRestores(mem, wmalloc(S, n, OkEnv))

\* the places behind the sentinel of the list q whose chunk has size need
\* or more
Fits(q, need) == {j \in 2..Len(q) : Ge64(SizeOf(q[j]), need)}

\* what search_bin has to hand back for the list q of bin i: the first
\* fitting chunk, unlinked with both links cleared, or NULL with the list
\* as it was
FirstFit(q, need, r) ==
  /\ r.s.fault = ""
  /\ r.v \notin Sentinels
  /\ IF Fits(q, need) = {}
     THEN r.v = Zero /\ r.s.mem = mem
     ELSE /\ r.v = q[FirstStop(Fits(q, need))]
          /\ RdWord(r.s.mem, LEFT(r.v)) = Zero
          /\ RdWord(r.s.mem, RIGHT(r.v)) = Zero
          /\ PlaceIn(ListIn(r.s.mem, q[1], MaxChunks + 2), r.v) = 0

\* search_bin(i, need) for the bin i that find_bin(need) names
SearchFinds(need, i) ==
  FirstFit(BinList(mem, i), need, search_bin(S, i, need))

\* 2^32 - 24: the byte count whose total 2^32 is 0 as an int
IntZeroRequest == <<W24 - CHUNK_OVERHEAD, 255, 0>>

\* C23: for the total of every byte count the caller asks for, search_bin
\* on the bin find_bin names hands back the first chunk behind the sentinel
\* whose size is the total or more, unlinked with both links cleared, or
\* NULL when no chunk of the bin fits; it never hands back a sentinel.
C23_SearchBinFirstFit ==
  wmalloc_ptr = InfoPtr =>
    \A n \in Requests \cup HugeRequests \cup {IntZeroRequest} :
      SearchFinds(NecessaryLength(n), find_bin(S, NecessaryLength(n)).v)

\* the walk along right_ptr from the sentinel of bin i reaches NULL without
\* visiting a node twice
Acyclic(q) ==
  /\ Len(q) < MaxChunks + 2
  /\ \A a, b \in 1..Len(q) : a # b => q[a] # q[b]

====
